---- MODULE Spec2Model ----
(***************************************************************************)
(* Model of the gamebot scoreboard service (app.py): one open session in   *)
(* process state, the history document (games, closed sessions), the JSON  *)
(* file it is saved to, and the two webhook handlers.                      *)
(*                                                                         *)
(* Text is a sequence of character codes (ASCII), so that lower(), strip(),*)
(* split() and string comparison are computed, not assumed.  A Python None *)
(* is the empty tuple; time.asctime() of clock value t is the one-element  *)
(* text <<t>>; a uuid4 string is the serial number of the uuid drawn.      *)
(* The `text` form field is taken to be present in every request.          *)
(*                                                                         *)
(* Spec     requests handled one at a time, the clock, process restarts    *)
(* SpecFn   get_wins, get_winner and summarize applied to lists of games   *)
(* SpecConc two requests handled by two threads without a lock             *)
(***************************************************************************)
EXTENDS Integers, Sequences, FiniteSets, TLC

VARIABLES history,    \* app.history: [games, sessions]
          state,      \* app.state: [session]
          db,         \* content of DB_FILENAME, or NoFile
          now,        \* wall clock read by time.asctime()
          uuids,      \* number of uuid4 values drawn so far
          request,    \* the request handled last
          response,   \* its outcome: the message, or the exception raised
          handled,    \* number of requests handled
          restarts,   \* number of process restarts
          fnGames,    \* scoring engine: argument
          fnResult,   \* scoring engine: result
          heap,       \* concurrent requests: the Session objects created
          sessionRef, \* concurrent requests: app.state['session'] as a reference
          threads     \* concurrent requests: position and locals of each

vars == <<history, state, db, now, uuids, request, response, handled,
          restarts, fnGames, fnResult, heap, sessionRef, threads>>

appVars == <<history, state, db, now, uuids, request, response, handled,
             restarts>>
fnVars == <<fnGames, fnResult>>
concVars == <<heap, sessionRef, threads>>

----------------------------------------------------------------------------
(* Bounds *)

MaxRequests == 3
MaxTime == 1
MaxRestarts == 1
MaxGames == 3

----------------------------------------------------------------------------
(* Values *)

None == <<>>
NoFile == [exists |-> FALSE]

\* outcome of a call: the value returned, or the exception that left it
Return(v) == [value |-> v]
Raise(exc) == [raised |-> exc]
Raised(r) == "raised" \in DOMAIN r
IndexError == Raise("IndexError")

asctime(t) == <<t>>
uuid4(n) == <<n>>

\* character codes of the whitespace str.strip() and str.split() remove
Whitespace == {32, 9, 10, 11, 12, 13}

T_start == <<115, 116, 97, 114, 116>>        \* "start"
T_end == <<101, 110, 100>>                   \* "end"
T_End_padded == <<32, 69, 110, 100, 32>>     \* " End "
T_stop == <<115, 116, 111, 112>>             \* "stop"

N_a == <<97>>                                \* "a"
N_b == <<98>>                                \* "b"
N_ab == <<97, 98>>                           \* "ab"

T_empty == <<>>                              \* ""
T_a_b == <<97, 32, 98>>                      \* "a b"
T_b_a == <<98, 32, 32, 97>>                  \* "b  a"

SessionTexts == {T_start, T_End_padded, T_stop}
GameTexts == {T_empty, T_a_b, T_b_a}

----------------------------------------------------------------------------
(* str methods *)

LowerChar(c) == IF c \in 65..90 THEN c + 32 ELSE c

lower(s) == [i \in 1..Len(s) |-> LowerChar(s[i])]

RECURSIVE lstrip(_)
lstrip(s) ==
    IF s # <<>> /\ Head(s) \in Whitespace THEN lstrip(Tail(s)) ELSE s

RECURSIVE rstrip(_)
rstrip(s) ==
    IF s # <<>> /\ s[Len(s)] \in Whitespace
    THEN rstrip(SubSeq(s, 1, Len(s) - 1))
    ELSE s

strip(s) == rstrip(lstrip(s))

\* str.split() with no separator: runs of whitespace separate the words and
\* no empty word is produced.  `word` is the word being collected.
RECURSIVE split_loop(_, _, _)
split_loop(s, word, words) ==
    IF s = <<>>
    THEN IF word = <<>> THEN words ELSE Append(words, word)
    ELSE IF Head(s) \in Whitespace
         THEN split_loop(Tail(s), <<>>,
                         IF word = <<>> THEN words ELSE Append(words, word))
         ELSE split_loop(Tail(s), Append(word, Head(s)), words)

split(s) == split_loop(s, <<>>, <<>>)

\* s < t for Python strings: code-point lexicographic order
StrLess(s, t) ==
    \E i \in 1..(Len(t)) :
        /\ \A j \in 1..(i - 1) : j <= Len(s) /\ s[j] = t[j]
        /\ \/ i = Len(s) + 1
           \/ i <= Len(s) /\ s[i] < t[i]

----------------------------------------------------------------------------
(* Record and Session *)

\* Record(scoreboard, session_id).json(), the row kept in history['games']
Record(scoreboard, session_id, t) ==
    [timestamp |-> asctime(t),
     scoreboard |-> scoreboard,
     session_id |-> session_id]

\* Session(): the n-th uuid drawn, started at clock value t
Session(n, t) ==
    [start_time |-> asctime(t),
     session_id |-> uuid4(n),
     end_time |-> None,
     game_count |-> 0]

\* Session.end(): the object after the call; its return value is its json()
Session_end(s, t) == [s EXCEPT !.end_time = asctime(t)]

Session_json(s) ==
    [session_id |-> s.session_id,
     start_time |-> s.start_time,
     end_time |-> s.end_time,
     game_count |-> s.game_count]

EmptyHistory == [games |-> <<>>, sessions |-> <<>>]
InitialState == [session |-> None]

----------------------------------------------------------------------------
(* dict: an insertion-ordered sequence of <<key, value>> items *)

dict_keys(d) == {d[i][1] : i \in DOMAIN d}

dict_get(d, k) == d[CHOOSE i \in DOMAIN d : d[i][1] = k][2]

dict_set(d, k, v) ==
    IF k \in dict_keys(d)
    THEN [i \in DOMAIN d |-> IF d[i][1] = k THEN <<k, v>> ELSE d[i]]
    ELSE Append(d, <<k, v>>)

----------------------------------------------------------------------------
(* JSON persistence *)

JNull == [type |-> "null"]
JString(s) == [type |-> "string", value |-> s]
JNumber(n) == [type |-> "number", value |-> n]
JArray(items) == [type |-> "array", items |-> items]
JObject(members) == [type |-> "object", members |-> members]

\* a value that is a str or None
dump_str_or_none(v) == IF v = None THEN JNull ELSE JString(v)

dump_game(g) ==
    JObject(<< <<"timestamp", JString(g.timestamp)>>,
               <<"scoreboard",
                 JArray([i \in DOMAIN g.scoreboard |->
                             JString(g.scoreboard[i])])>>,
               <<"session_id", dump_str_or_none(g.session_id)>> >>)

dump_session(s) ==
    JObject(<< <<"session_id", dump_str_or_none(s.session_id)>>,
               <<"start_time", JString(s.start_time)>>,
               <<"end_time", dump_str_or_none(s.end_time)>>,
               <<"game_count", JNumber(s.game_count)>> >>)

\* json.dump(history): the document written
dumps(h) ==
    JObject(<< <<"games",
                 JArray([i \in DOMAIN h.games |-> dump_game(h.games[i])])>>,
               <<"sessions",
                 JArray([i \in DOMAIN h.sessions |->
                             dump_session(h.sessions[i])])>> >>)

\* json.load: the Python value of a document
RECURSIVE loads(_)
loads(j) ==
    CASE j.type = "null" -> None
      [] j.type = "string" -> j.value
      [] j.type = "number" -> j.value
      [] j.type = "array" -> [i \in DOMAIN j.items |-> loads(j.items[i])]
      [] j.type = "object" ->
            [k \in {j.members[i][1] : i \in DOMAIN j.members} |->
                loads(j.members[CHOOSE i \in DOMAIN j.members :
                                    /\ j.members[i][1] = k
                                    /\ \A i2 \in DOMAIN j.members :
                                          j.members[i2][1] = k => i2 <= i][2])]

\* save_history(history, filename): the file content after the call
save_history(h, file) == [exists |-> TRUE, content |-> dumps(h)]

\* dict.update(**loaded): keys of `loaded` replace those of h
dict_update(h, loaded) ==
    [k \in DOMAIN h \cup DOMAIN loaded |->
        IF k \in DOMAIN loaded THEN loaded[k] ELSE h[k]]

load_history_games_only(file) ==
    IF file.exists
    THEN [EmptyHistory EXCEPT !.games = loads(file.content).games]
    ELSE EmptyHistory

\* module start-up: history after the optional load of DB_FILENAME
load_history(file) ==
    IF file.exists
    THEN dict_update(EmptyHistory, loads(file.content))
    ELSE EmptyHistory

----------------------------------------------------------------------------
(* Scoring engine *)

RECURSIVE get_wins_loop(_, _)
get_wins_loop(games, wins) ==
    IF games = <<>>
    THEN Return(wins)
    ELSE LET scoreboard == Head(games).scoreboard
         IN  IF scoreboard = <<>>
             THEN IndexError      \* scoreboard[0] of an empty list
             ELSE LET wins0 == IF scoreboard[1] \notin dict_keys(wins)
                               THEN dict_set(wins, scoreboard[1], 0)
                               ELSE wins
                  IN  get_wins_loop(Tail(games),
                                    dict_set(wins0, scoreboard[1],
                                             dict_get(wins0, scoreboard[1]) + 1))

get_wins_from_second(games) ==
    get_wins_loop(IF games = <<>> THEN games ELSE Tail(games), <<>>)

get_wins(games) == get_wins_loop(games, <<>>)

TupleLess_name_first(x, y) ==
    \/ StrLess(x[2], y[2])
    \/ x[2] = y[2] /\ x[1] < y[1]

\* x < y for the (count, name) tuples get_winner sorts
TupleLess(x, y) ==
    \/ x[1] < y[1]
    \/ x[1] = y[1] /\ StrLess(x[2], y[2])

RECURSIVE insort(_, _)
insort(list, x) ==
    IF list = <<>>
    THEN <<x>>
    ELSE IF TupleLess(x, Head(list))
         THEN <<x>> \o list
         ELSE <<Head(list)>> \o insort(Tail(list), x)

\* sorted(list): ascending, stable
RECURSIVE sorted(_)
sorted(list) ==
    IF list = <<>>
    THEN <<>>
    ELSE insort(sorted(SubSeq(list, 1, Len(list) - 1)), list[Len(list)])

get_winner(games) ==
    LET wins == get_wins(games)
    IN  IF Raised(wins)
        THEN wins
        ELSE LET sorted_results ==
                     sorted([i \in DOMAIN wins.value |->
                                 <<wins.value[i][2], wins.value[i][1]>>])
             IN  IF sorted_results = <<>>
                 THEN IndexError      \* sorted_results[-1] of an empty list
                 ELSE Return(sorted_results[Len(sorted_results)][2])

points_zero_based(num_players, n) == num_players - (n - 1)

\* num_players - n, the points of the n-th place (n counted from 1)
points(num_players, n) == num_players - n

\* the inner loop of summarize, from the n-th name of the scoreboard on
RECURSIVE summarize_scoreboard(_, _, _)
summarize_scoreboard(scoreboard, n, stats) ==
    IF n > Len(scoreboard)
    THEN stats
    ELSE LET name == scoreboard[n]
             num_players == Len(scoreboard)
             points0 == IF name \notin dict_keys(stats.player_points)
                        THEN dict_set(stats.player_points, name, 0)
                        ELSE stats.player_points
             points1 == dict_set(points0, name,
                                 dict_get(points0, name)
                                     + points(num_players, n))
             games0 == IF name \notin dict_keys(stats.player_games)
                       THEN dict_set(stats.player_games, name, 0)
                       ELSE stats.player_games
             games1 == dict_set(games0, name, dict_get(games0, name) + 1)
         IN  summarize_scoreboard(scoreboard, n + 1,
                                  [player_points |-> points1,
                                   player_games |-> games1])

RECURSIVE summarize_loop(_, _)
summarize_loop(games, stats) ==
    IF games = <<>>
    THEN stats
    ELSE summarize_loop(Tail(games),
                        summarize_scoreboard(Head(games).scoreboard, 1, stats))

summarize(games) ==
    summarize_loop(games, [player_points |-> <<>>, player_games |-> <<>>])

----------------------------------------------------------------------------
(* Session manager *)

this_session_always_new(st, n, t) == [session |-> Session(n + 1, t)]

\* this_session(): app.state after the call, n uuids having been drawn before
this_session(st, n, t) ==
    IF st.session = None THEN [session |-> Session(n + 1, t)] ELSE st

\* number of uuids drawn after this_session()
this_session_uuids(st, n) == IF st.session = None THEN n + 1 ELSE n

this_sessions_games_of_all_sessions(h, st) == h.games

\* this_sessions_games(), called while a session is held
this_sessions_games(h, st) ==
    SelectSeq(h.games, LAMBDA row : row.session_id = st.session.session_id)

start_session(st, n, t) ==
    LET st1 == this_session(st, n, t)
    IN  [state |-> st1,
         msg |-> [text |-> "Session started at {}",
                  start_time |-> st1.session.start_time]]

end_session_saved_by_caller(h, st, file, n, t) ==
    LET st1 == this_session(st, n, t)
        st2 == [session |-> Session_end(st1.session, t)]
        h1 == [h EXCEPT !.sessions = Append(@, Session_json(st2.session))]
        winner == get_winner(this_sessions_games(h1, st2))
    IN  IF Raised(winner)
        THEN [history |-> h1, state |-> st2, db |-> file, out |-> winner]
        ELSE [history |-> h1,
              state |-> [session |-> None],
              db |-> file,
              out |-> Return(
                  [text |-> "Session ended at {} after {} games. Winner is {}!",
                   end_time |-> st2.session.end_time,
                   game_count |-> st2.session.game_count,
                   winner |-> winner.value])]

\* end_session(): `out` is the message returned, or the exception raised
end_session(h, st, file, n, t) ==
    LET st1 == this_session(st, n, t)
        st2 == [session |-> Session_end(st1.session, t)]
        h1 == [h EXCEPT !.sessions = Append(@, Session_json(st2.session))]
        file1 == save_history(h1, file)
        winner == get_winner(this_sessions_games(h1, st2))
    IN  IF Raised(winner)
        THEN [history |-> h1, state |-> st2, db |-> file1, out |-> winner]
        ELSE [history |-> h1,
              state |-> [session |-> None],
              db |-> file1,
              out |-> Return(
                  [text |-> "Session ended at {} after {} games. Winner is {}!",
                   end_time |-> st2.session.end_time,
                   game_count |-> st2.session.game_count,
                   winner |-> winner.value])]

count_game_forgotten(st) == st

\* this_session().game_count += 1
count_game(st) == [st EXCEPT !.session.game_count = @ + 1]

append_game_in_front(h, record) == [h EXCEPT !.games = <<record>> \o @]

\* app.history['games'].append(record.json())
append_game(h, record) == [h EXCEPT !.games = Append(@, record)]

----------------------------------------------------------------------------
(* Requests and responses *)

NoRequest == [route |-> "none"]
NoResponse == [status |-> 0]
Ok(msg) == [status |-> 200, text |-> msg]
ServerError(exc) == [status |-> 500, exc |-> exc]

Pending == [pending |-> TRUE]

\* app.state['session'] is None, as a reference
NoRef == 0

Init ==
    /\ history = load_history(NoFile)
    /\ state = InitialState
    /\ db = NoFile
    /\ now = 0
    /\ uuids = 0
    /\ request = NoRequest
    /\ response = NoResponse
    /\ handled = 0
    /\ restarts = 0
    /\ fnGames = <<>>
    /\ fnResult = Pending
    /\ heap = <<>>
    /\ sessionRef = NoRef
    /\ threads = <<>>

\* time passes
Tick ==
    /\ now < MaxTime
    /\ now' = now + 1
    /\ UNCHANGED <<history, state, db, uuids, request, response, handled,
                   restarts, fnVars, concVars>>

manage_session_resolving_session(text) ==
    /\ handled < MaxRequests
    /\ handled' = handled + 1
    /\ request' = [route |-> "/session", text |-> text]
    /\ LET command == strip(lower(text))
       IN  IF command = T_start
           THEN LET r == start_session(state, uuids, now)
                IN  /\ state' = r.state
                    /\ uuids' = this_session_uuids(state, uuids)
                    /\ history' = history
                    /\ db' = save_history(history, db)
                    /\ response' = Ok(r.msg)
           ELSE IF command = T_end
           THEN LET r == end_session(history, state, db, uuids, now)
                IN  /\ state' = r.state
                    /\ uuids' = this_session_uuids(state, uuids)
                    /\ history' = r.history
                    /\ IF Raised(r.out)
                       THEN /\ db' = r.db
                            /\ response' = ServerError(r.out.raised)
                       ELSE /\ db' = save_history(r.history, r.db)
                            /\ response' = Ok(r.out.value)
           ELSE /\ state' = this_session(state, uuids, now)
                /\ uuids' = this_session_uuids(state, uuids)
                /\ history' = history
                /\ db' = save_history(history, db)
                /\ response' = Ok([text |-> "Try again!"])
    /\ UNCHANGED <<now, restarts, fnVars, concVars>>

\* POST /session
manage_session(text) ==
    /\ handled < MaxRequests
    /\ handled' = handled + 1
    /\ request' = [route |-> "/session", text |-> text]
    /\ LET command == strip(lower(text))
       IN  IF command = T_start
           THEN LET r == start_session(state, uuids, now)
                IN  /\ state' = r.state
                    /\ uuids' = this_session_uuids(state, uuids)
                    /\ history' = history
                    /\ db' = save_history(history, db)
                    /\ response' = Ok(r.msg)
           ELSE IF command = T_end
           THEN LET r == end_session(history, state, db, uuids, now)
                IN  /\ state' = r.state
                    /\ uuids' = this_session_uuids(state, uuids)
                    /\ history' = r.history
                    /\ IF Raised(r.out)
                       THEN /\ db' = r.db
                            /\ response' = ServerError(r.out.raised)
                       ELSE /\ db' = save_history(r.history, r.db)
                            /\ response' = Ok(r.out.value)
           ELSE /\ state' = state
                /\ uuids' = uuids
                /\ history' = history
                /\ db' = save_history(history, db)
                /\ response' = Ok([text |-> "Try again!"])
    /\ UNCHANGED <<now, restarts, fnVars, concVars>>

\* POST /gameover
log_result(text) ==
    /\ handled < MaxRequests
    /\ handled' = handled + 1
    /\ request' = [route |-> "/gameover", text |-> text]
    /\ LET scoreboard == split(text)
           st1 == this_session(state, uuids, now)
           record == Record(scoreboard, st1.session.session_id, now)
           st2 == count_game(st1)
           h1 == append_game(history, record)
           wins == get_wins(this_sessions_games(h1, st2))
       IN  /\ state' = st2
           /\ uuids' = this_session_uuids(state, uuids)
           /\ history' = h1
           /\ db' = save_history(h1, db)
           /\ response' =
                 IF scoreboard = <<>>
                 THEN ServerError("IndexError")   \* winner = scoreboard[0]
                 ELSE IF Raised(wins)
                 THEN ServerError(wins.raised)
                 ELSE Ok([text |-> "Got it! {} beat {}",
                          winner |-> scoreboard[1],
                          losers |-> Tail(scoreboard),
                          session_wins |-> wins.value,
                          \* the statistics pretty_print formats
                          all_time |-> summarize(h1.games)])
    /\ UNCHANGED <<now, restarts, fnVars, concVars>>

\* the process stops and is started again: lines 56-69 run afresh
Restart ==
    /\ restarts < MaxRestarts
    /\ restarts' = restarts + 1
    /\ history' = load_history(db)
    /\ state' = InitialState
    /\ request' = NoRequest
    /\ response' = NoResponse
    /\ UNCHANGED <<db, now, uuids, handled, fnVars, concVars>>

Next ==
    \/ Tick
    \/ \E text \in SessionTexts : manage_session(text)
    \/ \E text \in GameTexts : log_result(text)
    \/ Restart

Spec == Init /\ [][Next]_vars

----------------------------------------------------------------------------
(* The scoring engine applied to bounded game lists *)

N_Z == <<90>>                                \* "Z"

FnScoreboards ==
    { <<N_a, N_b>>, <<N_b, N_a>>, <<N_ab, N_a, N_b>>, <<N_Z>>, <<N_a, N_a>>,
      <<>> }

FnSessionIds == { uuid4(1), uuid4(2) }

FnRows == { Record(sb, id, 0) : sb \in FnScoreboards, id \in FnSessionIds }

RECURSIVE SeqsUpTo(_, _)
SeqsUpTo(S, n) ==
    IF n = 0
    THEN { <<>> }
    ELSE LET shorter == SeqsUpTo(S, n - 1)
         IN  shorter \cup { Append(q, x) : q \in shorter, x \in S }

InitFn ==
    /\ history = EmptyHistory
    /\ state = InitialState
    /\ db = NoFile
    /\ now = 0
    /\ uuids = 0
    /\ request = NoRequest
    /\ response = NoResponse
    /\ handled = 0
    /\ restarts = 0
    /\ fnGames \in SeqsUpTo(FnRows, MaxGames)
    /\ fnResult = Pending
    /\ heap = <<>>
    /\ sessionRef = NoRef
    /\ threads = <<>>

Call_get_winner ==
    /\ fnResult = Pending
    /\ fnResult' = [fn |-> "get_winner", out |-> get_winner(fnGames)]
    /\ UNCHANGED <<fnGames, appVars, concVars>>

Call_get_wins ==
    /\ fnResult = Pending
    /\ fnResult' = [fn |-> "get_wins", out |-> get_wins(fnGames)]
    /\ UNCHANGED <<fnGames, appVars, concVars>>

Call_summarize ==
    /\ fnResult = Pending
    /\ fnResult' = [fn |-> "summarize", out |-> Return(summarize(fnGames))]
    /\ UNCHANGED <<fnGames, appVars, concVars>>

NextFn ==
    \/ Call_get_winner
    \/ Call_get_wins
    \/ Call_summarize

SpecFn == InitFn /\ [][NextFn]_vars

----------------------------------------------------------------------------
(* Properties *)

\* the command of a /session request
Command(req) == strip(lower(req.text))

\* a step that handles a request on `route`
Handles(route) == handled' = handled + 1 /\ request'.route = route

GamesOf(session_id) ==
    {i \in DOMAIN history.games : history.games[i].session_id = session_id}

ClosedIds == {history.sessions[i].session_id : i \in DOMAIN history.sessions}

\* C1: the game_count of the session held in app.state equals the number of
\* rows of history['games'] that carry its session_id.
C1_GameCountMatchesLog ==
    state.session # None =>
        state.session.game_count =
            Cardinality(GamesOf(state.session.session_id))

C1_Witness ==
    /\ state.session # None
    /\ state.session.game_count >= 1
    /\ Len(history.sessions) >= 1
    /\ Len(history.games) > state.session.game_count

\* C2: the session held in app.state, if any, has no end_time and its
\* session_id is in no entry of history['sessions'].
C2_OpenSessionNotInSessions ==
    state.session # None =>
        /\ state.session.end_time = None
        /\ state.session.session_id \notin ClosedIds

\* C3: `start` directly followed by `end` answers without an error, leaves
\* the session in history['sessions'] with its end_time set, and leaves no
\* session in app.state.
C3_StartThenEndSucceeds ==
    [][(/\ request.route = "/session"
        /\ Command(request) = T_start
        /\ Handles("/session")
        /\ Command(request') = T_end)
       => (/\ response'.status = 200
           /\ state'.session = None
           /\ Len(history'.sessions) = Len(history.sessions) + 1
           /\ history'.sessions[Len(history'.sessions)].end_time # None)]_vars

\* C4: `start` while a session is held answers with that session's
\* start_time, leaves the session as it was and creates no other.
C4_StartIsIdempotent ==
    [][(/\ state.session # None
        /\ Handles("/session")
        /\ Command(request') = T_start)
       => (/\ state' = state
           /\ uuids' = uuids
           /\ history' = history
           /\ response'.status = 200
           /\ response'.text.start_time = state.session.start_time)]_vars

C4_Witness ==
    /\ request.route = "/session"
    /\ Command(request) = T_start
    /\ state.session.game_count >= 1
    /\ response.text.start_time # asctime(now)

\* C5: a game result without any player name is answered with an error and
\* changes neither history['games'] nor the session held.
C5_EmptyScoreboardRejected ==
    [][(/\ Handles("/gameover")
        /\ split(request'.text) = <<>>)
       => (/\ response'.status # 200
           /\ history' = history
           /\ state.session # None => state' = state)]_vars

\* C6: every row of history['games'] carries the session_id of the session
\* held in app.state or of an entry of history['sessions'].
C6_GamesBelongToKnownSession ==
    \A i \in DOMAIN history.games :
        \/ /\ state.session # None
           /\ history.games[i].session_id = state.session.session_id
        \/ history.games[i].session_id \in ClosedIds

\* C7: once a request has been handled, whichever way it ended, the file
\* holds the document of the history in memory.
C7_FileMatchesHistory ==
    request # NoRequest =>
        /\ db.exists
        /\ loads(db.content) = history

C7_Witness ==
    /\ request.route = "/session"
    /\ response.status = 500
    /\ Len(history.games) >= 1
    /\ Len(history.sessions) >= 1

\* C8: saving the history and loading the file at start-up gives the same
\* history back: the same games and sessions in the same order.
C8_SaveLoadRoundTrip ==
    load_history(save_history(history, db)) = history

C8_Witness ==
    /\ restarts = 1
    /\ Len(history.games) >= 2
    /\ Len(history.sessions) >= 1
    /\ \E i \in DOMAIN history.games : history.games[i].scoreboard = <<>>
    /\ \E i \in DOMAIN history.games : Len(history.games[i].scoreboard) = 2

\* C9: a game-result request appends exactly one row at the end of
\* history['games']; every other step leaves history['games'] as it is.
C9_GamesAppendOnly ==
    [][IF Handles("/gameover")
       THEN /\ Len(history'.games) = Len(history.games) + 1
            /\ SubSeq(history'.games, 1, Len(history.games)) = history.games
       ELSE history'.games = history.games]_vars

C9_Witness ==
    /\ request.route = "/session"
    /\ Len(history.games) >= 2
    /\ Len(history.sessions) >= 1
    /\ restarts = 1

\* number of games of fnGames that player p finished first in
FirstPlaces(p) ==
    Cardinality({i \in DOMAIN fnGames :
                    /\ fnGames[i].scoreboard # <<>>
                    /\ fnGames[i].scoreboard[1] = p})

FnPlayers ==
    UNION { {fnGames[i].scoreboard[j] : j \in DOMAIN fnGames[i].scoreboard} :
            i \in DOMAIN fnGames }

WinnerCalled ==
    /\ fnResult # Pending
    /\ fnResult.fn = "get_winner"
    /\ fnGames # <<>>
    /\ \A i \in DOMAIN fnGames : fnGames[i].scoreboard # <<>>

\* C10: over a non-empty list of games with non-empty scoreboards, get_winner
\* returns a player with the most first places, and of the players with that
\* many first places the one whose name is greatest.
C10_WinnerIsMaxThenGreatestName ==
    WinnerCalled =>
        /\ ~Raised(fnResult.out)
        /\ fnResult.out.value \in FnPlayers
        /\ \A p \in FnPlayers :
              /\ FirstPlaces(p) <= FirstPlaces(fnResult.out.value)
              /\ (FirstPlaces(p) = FirstPlaces(fnResult.out.value)
                  /\ p # fnResult.out.value)
                 => StrLess(p, fnResult.out.value)

C10_Witness ==
    /\ WinnerCalled
    /\ Len(fnGames) = 3
    /\ \E p \in FnPlayers :
          /\ p # fnResult.out.value
          /\ FirstPlaces(p) = FirstPlaces(fnResult.out.value)
          /\ Len(p) < Len(fnResult.out.value)

\* the call whose outcome fnResult holds
Called(fn) == fnResult # Pending /\ fnResult.fn = fn

NoDuplicateKeys(d) == Len(d) = Cardinality(dict_keys(d))

\* the sum of the values of dict d
SumOfValues(d) ==
    Cardinality({x \in (DOMAIN d) \X (1..Len(fnGames)) : x[2] <= d[x[1]][2]})

FnPositions == 1..(CHOOSE n \in {Len(sb) : sb \in FnScoreboards} :
                      \A sb \in FnScoreboards : Len(sb) <= n)

\* sum, over the games and the places p holds in them, of size - place
PointsOf(p) ==
    Cardinality({x \in (DOMAIN fnGames) \X FnPositions \X FnPositions :
                    LET scoreboard == fnGames[x[1]].scoreboard
                    IN  /\ x[2] <= Len(scoreboard)
                        /\ scoreboard[x[2]] = p
                        /\ x[3] <= Len(scoreboard) - x[2]})

\* C11: summarize gives every player the sum, over all games and all places
\* n (from 1) the player holds in a scoreboard of size N, of N - n.
C11_PointsAreSizeMinusPlace ==
    Called("summarize") =>
        LET player_points == fnResult.out.value.player_points
        IN  /\ NoDuplicateKeys(player_points)
            /\ dict_keys(player_points) = FnPlayers
            /\ \A p \in FnPlayers : dict_get(player_points, p) = PointsOf(p)

C11_Witness ==
    /\ Called("summarize")
    /\ Len(fnGames) = 3
    /\ \E i \in DOMAIN fnGames : Len(fnGames[i].scoreboard) = 3
    /\ \E p \in FnPlayers : PointsOf(p) >= 4
    /\ \E p \in FnPlayers : PointsOf(p) = 0

\* C12: over games with non-empty scoreboards, get_wins maps every player
\* who was first at least once, and no other, to the number of games the
\* player was first in; the values add up to the number of games.
C12_WinsCountFirstPlaces ==
    (Called("get_wins") /\ \A i \in DOMAIN fnGames :
                               fnGames[i].scoreboard # <<>>) =>
        /\ ~Raised(fnResult.out)
        /\ LET wins == fnResult.out.value
           IN  /\ NoDuplicateKeys(wins)
               /\ dict_keys(wins) = {p \in FnPlayers : FirstPlaces(p) >= 1}
               /\ \A p \in dict_keys(wins) : dict_get(wins, p) = FirstPlaces(p)
               /\ SumOfValues(wins) = Len(fnGames)

C12_Witness ==
    /\ Called("get_wins")
    /\ ~Raised(fnResult.out)
    /\ Len(fnGames) = 3
    /\ Len(fnResult.out.value) = 2
    /\ dict_keys(fnResult.out.value) # FnPlayers

\* C13: get_winner over an empty list of games ends in the EmptyLeaderboard
\* error and in no other outcome.
C13_EmptyListIsEmptyLeaderboard ==
    (Called("get_winner") /\ fnGames = <<>>) =>
        /\ Raised(fnResult.out)
        /\ fnResult.out.raised = "EmptyLeaderboard"

\* C18: summarize's player_games gives every player the number of games
\* whose scoreboard holds the player's name, however often it holds it.
C18_PlayerGamesCountsGames ==
    Called("summarize") =>
        LET player_games == fnResult.out.value.player_games
        IN  /\ dict_keys(player_games) = FnPlayers
            /\ \A p \in FnPlayers :
                  dict_get(player_games, p) =
                      Cardinality({i \in DOMAIN fnGames :
                                      \E j \in DOMAIN fnGames[i].scoreboard :
                                          fnGames[i].scoreboard[j] = p})

----------------------------------------------------------------------------
(* Properties of the sessions *)

\* C15: `end` on a held session with at least one game appends exactly one
\* entry to history['sessions'] and leaves no session in app.state.
C15_EndClosesSessionWithGames ==
    [][(/\ state.session # None
        /\ state.session.game_count >= 1
        /\ Handles("/session")
        /\ Command(request') = T_end)
       => (/\ Len(history'.sessions) = Len(history.sessions) + 1
           /\ state'.session = None)]_vars

HistoryPlayers ==
    UNION { {history.games[i].scoreboard[j] :
                 j \in DOMAIN history.games[i].scoreboard} :
            i \in DOMAIN history.games }

\* number of games of the session that player p finished first in
SessionFirstPlaces(session_id, p) ==
    Cardinality({i \in GamesOf(session_id) :
                    /\ history.games[i].scoreboard # <<>>
                    /\ history.games[i].scoreboard[1] = p})

\* the first game of the session that player p finished first in
FirstWin(session_id, p) ==
    CHOOSE i \in GamesOf(session_id) :
        /\ history.games[i].scoreboard[1] = p
        /\ \A k \in GamesOf(session_id) :
              history.games[k].scoreboard[1] = p => i <= k

EndAnswered ==
    /\ request.route = "/session"
    /\ Command(request) = T_end
    /\ response.status = 200

\* C16: the session wins of a game-result answer and the winner named by
\* `end` come from all the rows of history['games'] that carry the id of the
\* session of the request, the row just appended included, in the order of
\* the log, and from no other row.
C16_SessionStatsUseSessionGames ==
    /\ (request.route = "/gameover" /\ response.status = 200) =>
          LET id == state.session.session_id
              wins == response.text.session_wins
          IN  /\ NoDuplicateKeys(wins)
              /\ dict_keys(wins) =
                     {p \in HistoryPlayers : SessionFirstPlaces(id, p) >= 1}
              /\ \A p \in dict_keys(wins) :
                     dict_get(wins, p) = SessionFirstPlaces(id, p)
              /\ \A a, b \in DOMAIN wins :
                     a < b => FirstWin(id, wins[a][1]) < FirstWin(id, wins[b][1])
    /\ EndAnswered =>
          LET id == history.sessions[Len(history.sessions)].session_id
              winner == response.text.winner
          IN  /\ SessionFirstPlaces(id, winner) >= 1
              /\ \A p \in HistoryPlayers :
                    /\ SessionFirstPlaces(id, p) <= SessionFirstPlaces(id, winner)
                    /\ (SessionFirstPlaces(id, p) = SessionFirstPlaces(id, winner)
                        /\ p # winner) => StrLess(p, winner)

C16_Witness ==
    /\ EndAnswered
    /\ \E i \in DOMAIN history.games :
          /\ history.games[i].session_id #
                 history.sessions[Len(history.sessions)].session_id
          /\ history.games[i].scoreboard # <<>>
          /\ history.games[i].scoreboard[1] # response.text.winner

\* C17: a /session request whose text is neither start nor end creates no
\* session, leaves a held session as it is and leaves the history as it is.
C17_OtherTextChangesNothing ==
    [][(/\ Handles("/session")
        /\ Command(request') \notin {T_start, T_end})
       => (/\ state' = state
           /\ uuids' = uuids
           /\ history' = history)]_vars

C17_Witness ==
    /\ request.route = "/session"
    /\ Command(request) \notin {T_start, T_end}
    /\ response.status = 200
    /\ state.session = None
    /\ Len(history.sessions) >= 1

\* C19: every entry of history['sessions'] has its end_time set and a
\* game_count equal to the number of rows of history['games'] with its id.
C19_ClosedSessionsCountTheirGames ==
    \A i \in DOMAIN history.sessions :
        /\ history.sessions[i].end_time # None
        /\ history.sessions[i].game_count =
               Cardinality(GamesOf(history.sessions[i].session_id))

\* C20: no session_id is in more than one entry of history['sessions'].
C20_SessionIdsAreUnique ==
    \A i, j \in DOMAIN history.sessions :
        i # j => history.sessions[i].session_id # history.sessions[j].session_id

----------------------------------------------------------------------------
(* Two requests handled by two threads, a statement at a time.  No lock is   *)
(* taken anywhere in app.py.  `state` is app.state with the reference        *)
(* followed.  A thread is at one of                                          *)
(*   t74, t75, t77   this_session(): the test, the creation, the return      *)
(*   rec206          Record(...) with this_session().session_id              *)
(*   load207         read of game_count                                      *)
(*   store207        write of game_count + 1                                 *)
(*   append208       app.history['games'].append                             *)
(*   save            save_history (line 210 or 189)                          *)
(*   done            the rest of the handler only reads                      *)

Threads == {1, 2}

ConcRequests ==
    {[route |-> "/session", text |-> T_start]}
        \cup {[route |-> "/gameover", text |-> text] :
                 text \in GameTexts \ {T_empty}}

\* a thread that has parsed its request and is about to call this_session()
Arrived(req) ==
    [request |-> req,
     pc |-> "t74",
     site |-> IF req.route = "/gameover" THEN "206" ELSE "98",
     ref |-> NoRef,
     session_id |-> None,
     timestamp |-> None,
     game_count |-> 0]

Deref(ref, objects) ==
    [session |-> IF ref = NoRef THEN None ELSE objects[ref]]

InitConc ==
    /\ history = EmptyHistory
    /\ state = InitialState
    /\ db = NoFile
    /\ now = 0
    /\ uuids = 0
    /\ request = NoRequest
    /\ response = NoResponse
    /\ handled = 0
    /\ restarts = 0
    /\ fnGames = <<>>
    /\ fnResult = Pending
    /\ heap = <<>>
    /\ sessionRef = NoRef
    /\ threads \in [Threads -> {Arrived(req) : req \in ConcRequests}]

ConcFrame == UNCHANGED <<now, request, response, handled, restarts, fnVars>>

\* line 74: if app.state['session'] is None
T74(th) ==
    /\ threads[th].pc = "t74"
    /\ threads' = [threads EXCEPT
                      ![th].pc = IF sessionRef = NoRef THEN "t75" ELSE "t77"]
    /\ UNCHANGED <<history, state, db, uuids, heap, sessionRef>>
    /\ ConcFrame

\* line 75: app.state['session'] = Session()
T75(th) ==
    /\ threads[th].pc = "t75"
    /\ heap' = Append(heap, Session(uuids + 1, now))
    /\ uuids' = uuids + 1
    /\ sessionRef' = Len(heap) + 1
    /\ state' = Deref(sessionRef', heap')
    /\ threads' = [threads EXCEPT ![th].pc = "t77"]
    /\ UNCHANGED <<history, db>>
    /\ ConcFrame

\* line 77: return app.state['session']
T77(th) ==
    /\ threads[th].pc = "t77"
    /\ threads' = [threads EXCEPT
                      ![th].ref = sessionRef,
                      ![th].pc = CASE threads[th].site = "206" -> "rec206"
                                   [] threads[th].site = "207" -> "load207"
                                   [] threads[th].site = "98" -> "save"]
    /\ UNCHANGED <<history, state, db, uuids, heap, sessionRef>>
    /\ ConcFrame

\* lines 205-206: the Record, then line 207 calls this_session() again
Rec206(th) ==
    /\ threads[th].pc = "rec206"
    /\ threads' = [threads EXCEPT
                      ![th].session_id = heap[threads[th].ref].session_id,
                      ![th].timestamp = asctime(now),
                      ![th].site = "207",
                      ![th].pc = "t74"]
    /\ UNCHANGED <<history, state, db, uuids, heap, sessionRef>>
    /\ ConcFrame

\* line 207, the read of this_session().game_count
Load207(th) ==
    /\ threads[th].pc = "load207"
    /\ threads' = [threads EXCEPT
                      ![th].game_count = heap[threads[th].ref].game_count,
                      ![th].pc = "store207"]
    /\ UNCHANGED <<history, state, db, uuids, heap, sessionRef>>
    /\ ConcFrame

\* line 207, the write of game_count + 1
Store207(th) ==
    /\ threads[th].pc = "store207"
    /\ heap' = [heap EXCEPT
                   ![threads[th].ref].game_count = threads[th].game_count + 1]
    /\ state' = Deref(sessionRef, heap')
    /\ threads' = [threads EXCEPT ![th].pc = "append208"]
    /\ UNCHANGED <<history, db, uuids, sessionRef>>
    /\ ConcFrame

\* line 208
Append208(th) ==
    /\ threads[th].pc = "append208"
    /\ history' = append_game(history,
                              [timestamp |-> threads[th].timestamp,
                               scoreboard |-> split(threads[th].request.text),
                               session_id |-> threads[th].session_id])
    /\ threads' = [threads EXCEPT ![th].pc = "save"]
    /\ UNCHANGED <<state, db, uuids, heap, sessionRef>>
    /\ ConcFrame

\* line 210, or line 189 after start_session
Save(th) ==
    /\ threads[th].pc = "save"
    /\ db' = save_history(history, db)
    /\ threads' = [threads EXCEPT ![th].pc = "done"]
    /\ UNCHANGED <<history, state, uuids, heap, sessionRef>>
    /\ ConcFrame

NextConc ==
    \E th \in Threads :
        \/ T74(th)
        \/ T75(th)
        \/ T77(th)
        \/ Rec206(th)
        \/ Load207(th)
        \/ Store207(th)
        \/ Append208(th)
        \/ Save(th)

SpecConc == InitConc /\ [][NextConc]_vars

BothDone == \A th \in Threads : threads[th].pc = "done"

GameResults == {th \in Threads : threads[th].request.route = "/gameover"}

\* C14: when two requests that arrive with no session held have both been
\* handled, however their steps interleaved, one session was created, it is
\* the one held, and its game_count and the number of rows appended both
\* equal the number of game results among the two.
C14_InterleavingKeepsInvariants ==
    BothDone =>
        /\ uuids = 1
        /\ state.session # None
        /\ state.session.game_count = Cardinality(GameResults)
        /\ Len(history.games) = Cardinality(GameResults)
        /\ \A i \in DOMAIN history.games :
              history.games[i].session_id = state.session.session_id

====
